---- MODULE Spec2Model ----
(***************************************************************************)
(* Validation-and-triage pipeline of the upload portal: the blob-triggered *)
(* function process_uploaded_file, its format validators, move_blob and    *)
(* the report emitter, in the two variants kept in the repository:         *)
(*   "base"  src/function_app.py                                           *)
(*   "db"    src/azure-function/function_app.py                            *)
(* The SQL calls of the db variant catch their own exceptions and touch    *)
(* neither the object store nor the report; the tables they write are not  *)
(* part of the state here.                                                 *)
(* A file is modelled by the features of its bytes that the validators     *)
(* look at; the object store by the presence of each object in the three   *)
(* containers and by the report artifacts of the notifications container.  *)
(***************************************************************************)
EXTENDS Integers, Sequences, FiniteSets, TLC

(***************************************************************************)
(* Bounds of the model.                                                    *)
(***************************************************************************)
\* Deliveries of one object by the trigger (at-least-once: 1 + redeliveries).
MaxDeliveries == 2
\* UTC dates a behaviour may pass through.
MaxDays == 2

\* Requests the upload endpoint serves.
MaxRequests == 2

\* The largest table loaded has MaxBatches full batches and one row more.
MaxBatches == 2

(***************************************************************************)
(* Program constants: VALIDATION_RULES and the container names.            *)
(***************************************************************************)
CsvMaxRows == 10000000
CsvMaxColumns == 500
XlsxMaxRows == 1048576
XlsxMaxColumns == 500
XlsxMaxSheets == 50
JsonMaxSizeMb == 200
ParquetMaxSizeMb == 500
TxtMaxSizeMb == 100
BytesPerMb == 1048576

SQL_BATCH_SIZE == 1000

\* src/app.py
ALLOWED_EXTENSIONS == {"csv", "xlsx", "xls", "json", "txt", "parquet"}
MAX_FILE_SIZE == 500 * 1024 * 1024
AUTHORIZED_CLIENTS == {"CLI-00123", "CLI-00456"}

\* src/backend/app.py
DEMO_CLIENTS == {"CLI-00123", "CLI-00456"}

STAGING_CONTAINER == "staging"
REJECTED_CONTAINER == "rejected"

\* rules['required_encoding'] (base) / rules['encodings'] (db), in order.
CsvEncodings == <<"utf-8", "latin-1", "iso-8859-1">>

Variants == {"base", "db"}

(***************************************************************************)
(* Small helpers.                                                          *)
(***************************************************************************)
Min(a, b) == IF a <= b THEN a ELSE b

\* The empty dict {} of result['metadata'].
EmptyMeta == [k \in {} |-> 0]

\* len(content) / (1024 * 1024) > rules['max_size_mb'].  The division by a
\* power of two is exact, so the comparison is the one on bytes.
ExceedsMb(size, maxMb) == size > maxMb * BytesPerMb

(***************************************************************************)
(* Files.  A file is its name suffix and the features of its content.      *)
(*   suffix     text after the last dot of the filename, NoDot if none     *)
(*   size       len(content) in bytes                                      *)
(*   badUtf8    where the first byte that is not UTF-8 lies: "none",       *)
(*              "head" (in the part of the file that a read of the first   *)
(*              five rows consumes) or "tail" (beyond it)                  *)
(*   malformed  where the first tokenizing/syntax error lies, likewise     *)
(*   empty      no data and no header at all (pandas EmptyDataError)       *)
(*   rows, cols shape of the parsed table                                  *)
(*   header     the names in the header row of a csv file, in order (a     *)
(*              name is a number: <<1, 1, 2>> is the header a,a,b)         *)
(*   emptyRows  rows whose cells are all null                              *)
(*   top        JSON top-level shape; count its length; keys the number of *)
(*              keys of the object / of the first element                  *)
(*   workbookOk the workbook opens; sheets its sheets, each                *)
(*              [readable, rows, cols, dateHeader]                         *)
(*   parquetOk  the parquet structure decodes                              *)
(*   labelIndex the table read from a csv or parquet file gets index       *)
(*              labels that are not numbers (csv: the data rows have one   *)
(*              field more than the header, so the first field becomes the *)
(*              index; parquet: a stored index)                            *)
(*   newlines, chars  of the text decoded as UTF-8                         *)
(***************************************************************************)
NoDot == "<no dot>"

BaseFile ==
  [suffix |-> "csv", size |-> 20, badUtf8 |-> "none", malformed |-> "none",
   empty |-> FALSE, rows |-> 2, cols |-> 3, header |-> <<1, 2, 3>>, emptyRows |-> 0,
   top |-> "array", count |-> 2, keys |-> 2, firstIsDict |-> TRUE,
   workbookOk |-> TRUE, sheets |-> << >>, parquetOk |-> TRUE, labelIndex |-> FALSE,
   newlines |-> 1, chars |-> 20]

Sheet(readable, rows, cols, dateHeader) ==
  [readable |-> readable, rows |-> rows, cols |-> cols, dateHeader |-> dateHeader]

GoodSheet == Sheet(TRUE, 3, 2, FALSE)

CsvFiles ==
  { BaseFile,
    [BaseFile EXCEPT !.suffix = "CSV", !.header = <<1, 1, 2>>],
    [BaseFile EXCEPT !.emptyRows = 1],
    [BaseFile EXCEPT !.labelIndex = TRUE],
    [BaseFile EXCEPT !.rows = CsvMaxRows + 1],
    [BaseFile EXCEPT !.rows = CsvMaxRows + 1, !.cols = CsvMaxColumns + 1,
       !.header = [i \in 1..(CsvMaxColumns + 1) |-> i]],
    [BaseFile EXCEPT !.empty = TRUE, !.size = 0, !.rows = 0, !.cols = 0, !.header = << >>],
    [BaseFile EXCEPT !.badUtf8 = "head"],
    [BaseFile EXCEPT !.badUtf8 = "tail", !.rows = 9],
    [BaseFile EXCEPT !.malformed = "head"],
    [BaseFile EXCEPT !.malformed = "tail", !.rows = 9] }

ExcelFiles ==
  { [BaseFile EXCEPT !.suffix = "xlsx", !.sheets = <<GoodSheet>>],
    [BaseFile EXCEPT !.suffix = "xls", !.sheets = <<GoodSheet, Sheet(FALSE, 0, 0, FALSE)>>],
    [BaseFile EXCEPT !.suffix = "xlsx", !.sheets = <<Sheet(FALSE, 0, 0, FALSE), GoodSheet>>],
    [BaseFile EXCEPT !.suffix = "xlsx", !.workbookOk = FALSE],
    [BaseFile EXCEPT !.suffix = "xlsx", !.sheets = <<Sheet(TRUE, 3, 2, TRUE)>>],
    [BaseFile EXCEPT !.suffix = "xlsx",
       !.sheets = <<Sheet(TRUE, 3, XlsxMaxColumns + 1, FALSE), Sheet(TRUE, XlsxMaxRows, XlsxMaxColumns + 2, FALSE)>>],
    [BaseFile EXCEPT !.suffix = "xlsx", !.sheets = [i \in 1..(XlsxMaxSheets + 1) |-> GoodSheet]] }

JsonFiles ==
  { [BaseFile EXCEPT !.suffix = "json"],
    [BaseFile EXCEPT !.suffix = "json", !.top = "object"],
    [BaseFile EXCEPT !.suffix = "json", !.top = "scalar"],
    [BaseFile EXCEPT !.suffix = "json", !.malformed = "head"],
    [BaseFile EXCEPT !.suffix = "json", !.badUtf8 = "tail"],
    [BaseFile EXCEPT !.suffix = "json", !.badUtf8 = "head", !.malformed = "tail"],
    [BaseFile EXCEPT !.suffix = "json", !.size = JsonMaxSizeMb * BytesPerMb + 1] }

ParquetFiles ==
  { [BaseFile EXCEPT !.suffix = "parquet"],
    [BaseFile EXCEPT !.suffix = "parquet", !.parquetOk = FALSE],
    [BaseFile EXCEPT !.suffix = "parquet", !.labelIndex = TRUE],
    [BaseFile EXCEPT !.suffix = "parquet", !.size = ParquetMaxSizeMb * BytesPerMb + 1] }

TxtFiles ==
  { [BaseFile EXCEPT !.suffix = "txt"],
    [BaseFile EXCEPT !.suffix = "txt", !.badUtf8 = "head"],
    [BaseFile EXCEPT !.suffix = "txt", !.size = TxtMaxSizeMb * BytesPerMb + 1] }

OtherFiles ==
  { [BaseFile EXCEPT !.suffix = "pdf"],
    [BaseFile EXCEPT !.suffix = NoDot] }

Files == CsvFiles \cup ExcelFiles \cup JsonFiles \cup ParquetFiles \cup TxtFiles \cup OtherFiles

(***************************************************************************)
(* The report (validation_result) and what a validator hands back.         *)
(***************************************************************************)
\* str.lower() on the suffixes that occur.
Lower(s) ==
  CASE s = "CSV" -> "csv"
    [] s = "XLSX" -> "xlsx"
    [] OTHER -> s

\* extension = filename.rsplit('.', 1)[-1].lower() if '.' in filename else ''
Extension(f) == IF f.suffix = NoDot THEN "" ELSE Lower(f.suffix)

\* The validation_result dict built before the try block.
NewReport(o, f) ==
  [blob_name |-> o, extension |-> Extension(f), size_bytes |-> f.size,
   valid |-> FALSE, errors |-> << >>, warnings |-> << >>, metadata |-> EmptyMeta]

\* The parsed table handed on for loading (db variant): whether there is one,
\* its number of rows, and whether its index labels are the integers 0..n-1
\* ("range") or values that are not numbers ("labels").
NoDf == [present |-> FALSE, rows |-> 0, index |-> "range"]
Df(n, labelled) ==
  [present |-> TRUE, rows |-> n, index |-> IF labelled THEN "labels" ELSE "range"]

\* A validator's way out: the report as it left it, whether an exception
\* left the validator, and the parsed table (db variant).  Two fields record
\* what was called on the way: validator, the validate_* function the
\* dispatch called ("none" if none), and parsed, whether a call that decodes
\* the content or reads a table from it was made (content.decode,
\* pd.read_csv, pd.read_excel, pd.read_parquet).
Returned(r, df) ==
  [result |-> r, raised |-> FALSE, df |-> df, validator |-> "none", parsed |-> FALSE]
Raised(r) ==
  [result |-> r, raised |-> TRUE, df |-> NoDf, validator |-> "none", parsed |-> FALSE]
Parsed(out) == [out EXCEPT !.parsed = TRUE]
Called(name, out) == [out EXCEPT !.validator = name]

\* Every entry of errors and warnings is a pair <<message, detail>>.
AddError(r, e) == [r EXCEPT !.errors = Append(@, e)]
AddWarning(r, w) == [r EXCEPT !.warnings = Append(@, w)]
SetMeta(r, m) == [r EXCEPT !.metadata = m]

(***************************************************************************)
(* pandas.read_csv on the file's bytes.                                    *)
(***************************************************************************)
\* latin-1 and iso-8859-1 decode every byte string; only utf-8 can fail.
Decodes(f, enc, upTo) ==
  \/ enc # "utf-8"
  \/ f.badUtf8 = "none"
  \/ upTo = "head" /\ f.badUtf8 = "tail"

Tokenizes(f, upTo) ==
  \/ f.malformed = "none"
  \/ upTo = "head" /\ f.malformed = "tail"

\* "ok", or the exception raised: EmptyDataError, UnicodeDecodeError, ParserError.
ReadCsv(f, enc, upTo) ==
  IF f.empty THEN "EmptyDataError"
  ELSE IF ~Decodes(f, enc, upTo) THEN "UnicodeDecodeError"
  ELSE IF ~Tokenizes(f, upTo) THEN "ParserError"
  ELSE "ok"

\* pd.read_csv(BytesIO(content), encoding=enc, nrows=5)
SampleRead(f, enc) == ReadCsv(f, enc, "head")
\* pd.read_csv(BytesIO(content), encoding=enc, low_memory=False)
FullRead(f, enc) == ReadCsv(f, enc, "all")

\* The for/try/except loop over the encodings, from the i-th on: the index of
\* the first encoding read without exception, 0 if every one raised
\* UnicodeDecodeError or ParserError, -1 if another exception escaped.
RECURSIVE TryEncodings(_, _, _)
TryEncodings(f, upTo, i) ==
  IF i > Len(CsvEncodings) THEN 0
  ELSE LET out == ReadCsv(f, CsvEncodings[i], upTo)
       IN  IF out = "ok" THEN i
           ELSE IF out \in {"UnicodeDecodeError", "ParserError"}
                THEN TryEncodings(f, upTo, i + 1)
                ELSE -1

\* df.columns.tolist()[:limit]: the names are modelled by how many they are and
\* by whether one of them is a datetime (an Excel header cell holding a date).
ColumnNames(cols, limit, dates) == [n |-> Min(cols, limit), dates |-> dates]

\* The column labels of the frame pd.read_csv builds from a header row: a
\* name that occurred k times before is renamed name.k (a, a.1, a.2, ...).
\* The label <<name, k>> stands for name when k = 0 and for name.k otherwise.
Mangle(header) ==
  [i \in 1..Len(header) |->
     <<header[i], Cardinality({j \in 1..(i - 1) : header[j] = header[i]})>>]

\* df.columns[df.columns.duplicated()].tolist(): the labels equal to a label
\* further left, in order.
Duplicated(labels) ==
  LET idx == SelectSeq([i \in 1..Len(labels) |-> i],
                       LAMBDA i : \E j \in 1..(i - 1) : labels[j] = labels[i])
  IN  [k \in 1..Len(idx) |-> labels[idx[k]]]

\* Mutant of CsvLimitChecks: the column check is skipped once the row check
\* has failed.
CsvLimitChecksShortCircuit(f, r) ==
  LET dup == Duplicated(Mangle(f.header))
      r2 == IF f.rows > CsvMaxRows THEN AddError(r, <<"csv: too many rows", 0>>)
            ELSE IF f.cols > CsvMaxColumns THEN AddError(r, <<"csv: too many columns", 0>>)
            ELSE r
      r3 == IF dup # << >>
            THEN AddWarning(r2, <<"duplicated columns", SubSeq(dup, 1, Min(Len(dup), 5))>>)
            ELSE r2
      r4 == IF f.emptyRows > 0 THEN AddWarning(r3, <<"empty rows", f.emptyRows>>) ELSE r3
  IN  r4

\* rows/columns checks, duplicate and empty-row warnings (both variants).
CsvLimitChecks(f, r) ==
  LET dup == Duplicated(Mangle(f.header))
      r1 == IF f.rows > CsvMaxRows THEN AddError(r, <<"csv: too many rows", 0>>) ELSE r
      r2 == IF f.cols > CsvMaxColumns THEN AddError(r1, <<"csv: too many columns", 0>>) ELSE r1
      r3 == IF dup # << >>
            THEN AddWarning(r2, <<"duplicated columns", SubSeq(dup, 1, Min(Len(dup), 5))>>)
            ELSE r2
      r4 == IF f.emptyRows > 0 THEN AddWarning(r3, <<"empty rows", f.emptyRows>>) ELSE r3
  IN  r4

\* validate_csv of src/function_app.py
ValidateCsvBase(f, r) ==
  LET i == TryEncodings(f, "head", 1)
  IN  Parsed(
      IF i = -1 THEN Raised(r)
      ELSE IF i = 0 THEN Returned(AddError(r, <<"csv: no supported encoding", 0>>), NoDf)
      ELSE IF FullRead(f, CsvEncodings[i]) # "ok"
           THEN Returned(AddError(r, <<"csv: parse error", 0>>), NoDf)
      ELSE Returned(SetMeta(CsvLimitChecks(f, r),
                      [encoding |-> CsvEncodings[i], rows |-> f.rows, columns |-> f.cols,
                       column_names |-> ColumnNames(f.cols, 50, FALSE)]),
                    NoDf))

\* validate_csv of src/azure-function/function_app.py
ValidateCsvDb(f, r) ==
  LET i == TryEncodings(f, "all", 1)
  IN  Parsed(
      IF i = -1 THEN Raised(r)
      ELSE IF i = 0 THEN Returned(AddError(r, <<"csv: no supported encoding", 0>>), NoDf)
      ELSE Returned(SetMeta(CsvLimitChecks(f, r),
                      [encoding |-> CsvEncodings[i], rows |-> f.rows, columns |-> f.cols,
                       column_names |-> ColumnNames(f.cols, 50, FALSE)]),
                    Df(f.rows, f.labelIndex)))

(***************************************************************************)
(* Spreadsheets.                                                           *)
(***************************************************************************)
\* The loop "for sheet in sheet_names" of validate_excel (base), from sheet i
\* on: acc = [r, total, info] holds the report, total_rows and sheets_info.
RECURSIVE ReadSheets(_, _, _)
ReadSheets(f, i, acc) ==
  IF i > Len(f.sheets) THEN acc
  ELSE LET sh == f.sheets[i]
       IN  IF sh.readable
           THEN ReadSheets(f, i + 1,
                  [r |-> IF sh.cols > XlsxMaxColumns
                         THEN AddError(acc.r, <<"sheet: too many columns", i>>)
                         ELSE acc.r,
                   total |-> acc.total + sh.rows,
                   info |-> acc.info \cup
                            {[sheet |-> i, rows |-> sh.rows, columns |-> sh.cols,
                              column_names |-> ColumnNames(sh.cols, 20, sh.dateHeader)]}])
           ELSE ReadSheets(f, i + 1,
                  [acc EXCEPT !.r = AddWarning(acc.r, <<"sheet: read error", i>>)])

\* Mutant of ValidateExcelBase: the sheet-count error is recorded, and the
\* first sheet is read and described all the same.
ValidateExcelBaseReadingOn(f, r) ==
  IF ~f.workbookOk THEN Returned(AddError(r, <<"excel: corrupt workbook", 0>>), NoDf)
  ELSE LET over == Len(f.sheets) > XlsxMaxSheets
           r0 == IF over THEN AddError(r, <<"excel: too many sheets", Len(f.sheets)>>) ELSE r
           g == IF over THEN [f EXCEPT !.sheets = SubSeq(@, 1, 1)] ELSE f
           acc == ReadSheets(g, 1, [r |-> r0, total |-> 0, info |-> {}])
           r1 == IF acc.total > XlsxMaxRows
                 THEN AddError(acc.r, <<"excel: too many rows", acc.total>>)
                 ELSE acc.r
       IN  Parsed(Returned(SetMeta(r1, [sheet_count |-> Len(f.sheets), total_rows |-> acc.total,
                                        sheets_detail |-> acc.info]),
                           NoDf))

\* validate_excel of src/function_app.py.  pd.read_excel is first called in
\* the loop over the sheets (a workbook that opens has at least one sheet).
ValidateExcelBase(f, r) ==
  IF ~f.workbookOk THEN Returned(AddError(r, <<"excel: corrupt workbook", 0>>), NoDf)
  ELSE IF Len(f.sheets) > XlsxMaxSheets
       THEN Returned(AddError(r, <<"excel: too many sheets", Len(f.sheets)>>), NoDf)
  ELSE LET acc == ReadSheets(f, 1, [r |-> r, total |-> 0, info |-> {}])
           r1 == IF acc.total > XlsxMaxRows
                 THEN AddError(acc.r, <<"excel: too many rows", acc.total>>)
                 ELSE acc.r
       IN  Parsed(Returned(SetMeta(r1, [sheet_count |-> Len(f.sheets), total_rows |-> acc.total,
                                        sheets_detail |-> acc.info]),
                           NoDf))

\* validate_excel of src/azure-function/function_app.py: first sheet only.
ValidateExcelDb(f, r) ==
  IF ~f.workbookOk THEN Returned(AddError(r, <<"excel: corrupt workbook", 0>>), NoDf)
  ELSE IF Len(f.sheets) > XlsxMaxSheets
       THEN Returned(AddError(r, <<"excel: too many sheets", Len(f.sheets)>>), NoDf)
  ELSE IF ~f.sheets[1].readable
       THEN Parsed(Returned(AddError(r, <<"excel: first sheet unreadable", 1>>), NoDf))
  ELSE LET sh == f.sheets[1]
           r1 == IF sh.rows > XlsxMaxRows THEN AddError(r, <<"excel: too many rows", sh.rows>>) ELSE r
           r2 == IF sh.cols > XlsxMaxColumns THEN AddError(r1, <<"excel: too many columns", sh.cols>>) ELSE r1
       IN  Parsed(Returned(SetMeta(r2, [sheet_count |-> Len(f.sheets), rows |-> sh.rows,
                                        columns |-> sh.cols,
                                        column_names |-> ColumnNames(sh.cols, 50, sh.dateHeader)]),
                           Df(sh.rows, FALSE)))

(***************************************************************************)
(* JSON, parquet, plain text.                                              *)
(***************************************************************************)
\* The metadata recorded for decoded JSON data (base).
JsonMetaBase(f) ==
  CASE f.top = "array" ->
         [type |-> "array", record_count |-> f.count,
          sample_keys |-> IF f.count > 0 /\ f.firstIsDict THEN Min(f.keys, 20) ELSE 0]
    [] f.top = "object" -> [type |-> "object", top_level_keys |-> Min(f.keys, 20)]
    [] OTHER -> EmptyMeta

\* validate_json of src/function_app.py
ValidateJsonBase(f, r) ==
  IF ExceedsMb(f.size, JsonMaxSizeMb) THEN Returned(AddError(r, <<"json: too large", 0>>), NoDf)
  ELSE Parsed(
       IF f.badUtf8 = "none"
       THEN IF f.malformed # "none"
            THEN Returned(AddError(r, <<"json: invalid", 0>>), NoDf)
            ELSE Returned(SetMeta(r, JsonMetaBase(f)), NoDf)
       ELSE IF f.malformed # "none"
            THEN Returned(AddError(r, <<"json: unsupported encoding", 0>>), NoDf)
            ELSE Returned(SetMeta(r, JsonMetaBase(f)), NoDf))

JsonMetaDb(f) ==
  CASE f.top = "array" -> [type |-> "array", records |-> f.count]
    [] f.top = "object" -> [type |-> "object", keys |-> Min(f.keys, 20)]
    [] OTHER -> EmptyMeta

\* validate_json of src/azure-function/function_app.py: the latin-1 fallback
\* is outside any handler, so its JSONDecodeError leaves the validator.
ValidateJsonDb(f, r) ==
  IF ExceedsMb(f.size, JsonMaxSizeMb) THEN Returned(AddError(r, <<"json: too large", 0>>), NoDf)
  ELSE Parsed(
       IF f.badUtf8 = "none"
       THEN IF f.malformed # "none"
            THEN Returned(AddError(r, <<"json: invalid", 0>>), NoDf)
            ELSE Returned(SetMeta(r, JsonMetaDb(f)),
                          IF f.top = "array" THEN Df(f.count, FALSE) ELSE NoDf)
       ELSE IF f.malformed # "none"
            THEN Raised(r)
            ELSE Returned(SetMeta(r, JsonMetaDb(f)),
                          IF f.top = "array" THEN Df(f.count, FALSE) ELSE NoDf))

\* validate_parquet of src/function_app.py
ValidateParquetBase(f, r) ==
  IF ExceedsMb(f.size, ParquetMaxSizeMb) THEN Returned(AddError(r, <<"parquet: too large", 0>>), NoDf)
  ELSE Parsed(
       IF f.parquetOk
       THEN Returned(SetMeta(r, [rows |-> f.rows, columns |-> f.cols,
                                 column_names |-> ColumnNames(f.cols, 50, FALSE)]), NoDf)
       ELSE Returned(AddError(r, <<"parquet: invalid", 0>>), NoDf))

\* validate_parquet of src/azure-function/function_app.py
ValidateParquetDb(f, r) ==
  IF ExceedsMb(f.size, ParquetMaxSizeMb) THEN Returned(AddError(r, <<"parquet: too large", 0>>), NoDf)
  ELSE Parsed(
       IF f.parquetOk
       THEN Returned(SetMeta(r, [rows |-> f.rows, columns |-> f.cols,
                                 column_names |-> ColumnNames(f.cols, 50, FALSE)]), Df(f.rows, f.labelIndex))
       ELSE Returned(AddError(r, <<"parquet: invalid", 0>>), NoDf))

\* len(text): code points when decoded as UTF-8, bytes when as latin-1.
DecodedLength(f) == IF f.badUtf8 = "none" THEN f.chars ELSE f.size

\* validate_txt of src/function_app.py (the latin-1 decode cannot fail)
ValidateTxtBase(f, r) ==
  IF ExceedsMb(f.size, TxtMaxSizeMb) THEN Returned(AddError(r, <<"txt: too large", 0>>), NoDf)
  ELSE Parsed(Returned(SetMeta(r, [lines |-> f.newlines + 1, characters |-> DecodedLength(f),
                                   encoding |-> "utf-8"]), NoDf))

\* validate_txt of src/azure-function/function_app.py: no size check; the
\* caller stores the returned dict as the metadata.
ValidateTxtDb(f, r) ==
  Parsed(Returned(SetMeta(r, [lines |-> f.newlines + 1, characters |-> DecodedLength(f)]), NoDf))

(***************************************************************************)
(* The dispatch on the extension in process_uploaded_file.                 *)
(***************************************************************************)
\* The extensions the if/elif chain has a branch for.
SupportedExtensions == {"csv", "xlsx", "xls", "json", "parquet", "txt"}

\* Mutant of Validate: a file of another extension is validated as text.
ValidateDefaultingToTxt(v, f, r) ==
  LET ext == r.extension
  IN  CASE ext = "csv" ->
             Called("csv", IF v = "base" THEN ValidateCsvBase(f, r) ELSE ValidateCsvDb(f, r))
        [] ext \in {"xlsx", "xls"} ->
             Called("excel", IF v = "base" THEN ValidateExcelBase(f, r) ELSE ValidateExcelDb(f, r))
        [] ext = "json" ->
             Called("json", IF v = "base" THEN ValidateJsonBase(f, r) ELSE ValidateJsonDb(f, r))
        [] ext = "parquet" ->
             Called("parquet",
                    IF v = "base" THEN ValidateParquetBase(f, r) ELSE ValidateParquetDb(f, r))
        [] OTHER ->
             Called("txt", IF v = "base" THEN ValidateTxtBase(f, r) ELSE ValidateTxtDb(f, r))

Validate(v, f, r) ==
  LET ext == r.extension
  IN  CASE ext = "csv" ->
             Called("csv", IF v = "base" THEN ValidateCsvBase(f, r) ELSE ValidateCsvDb(f, r))
        [] ext \in {"xlsx", "xls"} ->
             Called("excel", IF v = "base" THEN ValidateExcelBase(f, r) ELSE ValidateExcelDb(f, r))
        [] ext = "json" ->
             Called("json", IF v = "base" THEN ValidateJsonBase(f, r) ELSE ValidateJsonDb(f, r))
        [] ext = "parquet" ->
             Called("parquet",
                    IF v = "base" THEN ValidateParquetBase(f, r) ELSE ValidateParquetDb(f, r))
        [] ext = "txt" ->
             Called("txt", IF v = "base" THEN ValidateTxtBase(f, r) ELSE ValidateTxtDb(f, r))
        [] OTHER -> Returned(AddError(r, <<"unsupported extension", 0>>), NoDf)

(***************************************************************************)
(* The orchestrator's decisions, as pure steps on the report.              *)
(***************************************************************************)
\* Mutant of MarkValid: valid is set whatever the errors are.
MarkValidAlways(r) == [r EXCEPT !.valid = TRUE]

\* "if not validation_result['errors']: validation_result['valid'] = True"
MarkValid(r) == IF r.errors = << >> THEN [r EXCEPT !.valid = TRUE] ELSE r

\* Mutant of Destination: the two branches exchanged.
DestinationSwapped(r) == IF r.errors = << >> THEN REJECTED_CONTAINER ELSE STAGING_CONTAINER

\* Mutant of Destination: a report with a warning is sent to rejected too.
DestinationHeedingWarnings(r) ==
  IF r.errors = << >> /\ r.warnings = << >> THEN STAGING_CONTAINER ELSE REJECTED_CONTAINER

\* The container handed to move_blob.
Destination(r) == IF r.errors = << >> THEN STAGING_CONTAINER ELSE REJECTED_CONTAINER

\* "validation_result['errors'].append(f'Erro interno: {str(e)}')"
AppendInternalError(r) == AddError(r, <<"internal error", 0>>)

\* json.dumps(result) succeeds: no datetime among the column names kept in
\* the metadata (json cannot serialize a datetime).
Serializable(r) ==
  LET m == r.metadata
  IN  /\ "column_names" \in DOMAIN m => ~m.column_names.dates
      /\ "sheets_detail" \in DOMAIN m => \A d \in m.sheets_detail : ~d.column_names.dates

(***************************************************************************)
(* Objects, and the state of the system.                                   *)
(***************************************************************************)
Objects == {"o1", "o2"}

\* The name of an object in uploads-clientes, "{client}/{folder}/{filename}":
\* parts[0], the parts between, and parts[-1] of the relative path.
Clients == {"acme", "beta"}
Folders == {1, 2}
Filenames == {"f1", "f2"}
Path(c, d, n) == [client |-> c, folder |-> d, filename |-> n]

\* The names the objects have unless stated otherwise.
DefaultPath == [o \in Objects |-> IF o = "o1" THEN Path("acme", 1, "f1") ELSE Path("beta", 1, "f2")]

\* The UTC dates the runs may see.
Days == 1..MaxDays

\* The place of the client in a report name that has none (db variant).
NoClient == "-"

ReportNames == {<<c, d, n>> : c \in Clients \cup {NoClient}, d \in Days, n \in Filenames}

VARIABLES
  variant,        \* which of the two function apps is deployed
  connected,      \* CONNECTION_STRING is set (otherwise the demo branches run)
  file,           \* file[o]: the file uploaded as object o
  uploaded,       \* uploaded[o]: o is in uploads-clientes
  staged,         \* staged[o]: o is in staging
  rejected,       \* rejected[o]: o is in rejected
  notifications,  \* notifications[n]: << >> or <<the report stored under n>>
  deliveries,     \* deliveries[o]: runs the trigger has started for o
  run,            \* run[o]: the current (or last) run of process_uploaded_file
  path,           \* path[o]: the name of object o in uploads-clientes
  day,            \* the current UTC date
  writes,         \* writes[n]: successful writes of a report under n so far
  db,             \* "off": every SQL call fails; "on": each may succeed or fail
  record,         \* record[o]: upload_files has a row for the blob path of o
  status,         \* status[o]: upload_status of that row
  loaded,         \* loaded[o]: rows of staging_data committed for o
  ld,             \* a call of load_dataframe_to_staging, row by row
  ep              \* the upload endpoint, its store and its history

names == <<path, day>>
sql == <<db, record, status, loaded>>
aside == <<ld, ep>>

vars == <<variant, connected, file, uploaded, staged, rejected, notifications,
          deliveries, run, path, day, writes, db, record, status, loaded, ld, ep>>

\* client_prefix and filename, the parts of the blob path the report name uses.
Client(o) == path[o].client
Filename(o) == path[o].filename

\* report_name: "{client}/{date}/{filename}_report.json" (base),
\* "{date}/{filename}_report.json" (db), with the date of the moment of the call.
ReportName(v, o) ==
  IF v = "base" THEN <<Client(o), day, Filename(o)>> ELSE <<NoClient, day, Filename(o)>>

\* A run before anything happened in it.
\*   pc        "idle", "copy", "delete", "report", "except", "done"
\*   copy/del  outcome of upload_blob / delete_blob in move_blob:
\*             "none", "ok", "failed"
\*   emitted   calls of the report emitter in this run
\*   persisted the report artifact was written in this run
\*   excepted  the orchestrator's except branch ran
\*   outcome   "none" while running, then "returned" or "raised"
\*   read      blob.read() returned the bytes
\*   validator, parsed   what the dispatch called (see Returned)
\*   triaged   the run reached the decision between staging and rejected
\*   reportName  the report_name the emitter computed when it last wrote
\*   fileId    get_upload_file_id returned an id (db variant)
\*   tele      the SQL calls made after the triage or in the except branch:
\*             "none", then "status" (update_upload_status was called and a
\*             load is due), "done", or "error" (the 'error' update was called)
FreshRun(o, f) ==
  [pc |-> "idle", report |-> NewReport(o, f), dest |-> "", df |-> NoDf,
   copy |-> "none", del |-> "none", emitted |-> 0, persisted |-> FALSE,
   excepted |-> FALSE, outcome |-> "none",
   read |-> FALSE, validator |-> "none", parsed |-> FALSE, triaged |-> FALSE,
   reportName |-> << >>, fileId |-> FALSE, tele |-> "none"]

\* load_dataframe_to_staging before it is called.
\*   pc        "idle", "connect", "row", "flush", "update", "commit", "close",
\*             "returned"
\*   rows      the rows of df; index: "range" (0, 1, 2, ...) or "labels"
\*   i         rows the for loop has taken from df.iterrows()
\*   batch     the row_number of each tuple in the list batch
\*   total     total_rows
\*   tx        row numbers inserted in the open transaction
\*   table     row numbers of staging_data that are committed
\*   sizes     the length of each list handed to executemany
\*   recorded  rows_loaded of the upload_files row, once committed (-1: none)
\*   dbError   an SQL call of this call raised
\*   result    the value returned (-1: none yet)
IdleLoad ==
  [pc |-> "idle", rows |-> 0, index |-> "range", i |-> 0, batch |-> << >>,
   total |-> 0, tx |-> << >>, table |-> << >>, sizes |-> << >>,
   recorded |-> -1, dbError |-> FALSE, result |-> -1]

\* request.files / request.form of a request that carries nothing.
NoRequest ==
  [hasFile |-> FALSE, filename |-> [empty |-> TRUE, suffix |-> NoDot],
   clientId |-> "", size |-> 0]

\* The upload endpoint before any request.
\*   app      "app" (src/app.py) or "backend" (src/backend/app.py)
\*   service  get_blob_service() returns a client (a connection string is set)
\*   pc       "idle", "upload" (before upload_to_blob), "record" (after it)
\*   served   requests answered so far
\*   store    blob paths written to the container
\*   history  blob paths recorded (upload_history / upload_files), newest first
\*   answer   the status code of the last response (0: none yet)
IdleEndpoint ==
  [app |-> "app", service |-> FALSE, pc |-> "idle", req |-> NoRequest,
   served |-> 0, blobPath |-> << >>, store |-> {}, history |-> << >>, answer |-> 0]

\* The files tried when two objects are in flight together: accepted,
\* rejected, raising in the validator, with a report json cannot dump, and
\* accepted with a warning.
PairFiles ==
  { BaseFile,
    [BaseFile EXCEPT !.rows = CsvMaxRows + 1],
    [BaseFile EXCEPT !.empty = TRUE, !.size = 0, !.rows = 0, !.cols = 0, !.header = << >>],
    [BaseFile EXCEPT !.suffix = "xlsx", !.sheets = <<Sheet(TRUE, 3, 2, TRUE)>>],
    [BaseFile EXCEPT !.emptyRows = 1] }

\* Either one object has been uploaded, with any of the files, or both have,
\* with files of PairFiles.  An object that was not uploaded has no run.
Init ==
  /\ variant \in Variants
  /\ connected \in BOOLEAN
  /\ uploaded \in {[o \in Objects |-> o = "o1"], [o \in Objects |-> TRUE]}
  /\ file \in [Objects -> Files]
  /\ IF uploaded["o2"]
     THEN \A o \in Objects : file[o] \in PairFiles
     ELSE file["o2"] = BaseFile
  /\ staged = [o \in Objects |-> FALSE]
  /\ rejected = [o \in Objects |-> FALSE]
  /\ notifications = [n \in ReportNames |-> << >>]
  /\ deliveries = [o \in Objects |-> 0]
  /\ run = [o \in Objects |-> FreshRun(o, file[o])]
  /\ path = DefaultPath
  /\ day = 1
  /\ writes = [n \in ReportNames |-> 0]
  /\ db = "off"
  /\ record = [o \in Objects |-> FALSE]
  /\ status = [o \in Objects |-> "none"]
  /\ loaded = [o \in Objects |-> 0]
  /\ ld = IdleLoad
  /\ ep = IdleEndpoint

(***************************************************************************)
(* process_uploaded_file, step by step.  A step ends at each operation on  *)
(* the object store.                                                       *)
(***************************************************************************)
\* Mutant of AfterValidation: a failed read is triaged as a rejection (the
\* error is recorded and the object is sent to the rejected container).
AfterValidationRejectingReadError(o, readOk) ==
  LET r0 == NewReport(o, file[o])
      v == IF readOk THEN Validate(variant, file[o], r0)
           ELSE Returned(AddError(r0, <<"internal error", 0>>), NoDf)
  IN  IF v.raised
      THEN [FreshRun(o, file[o]) EXCEPT !.pc = "except", !.report = v.result, !.read = readOk,
                                        !.validator = v.validator, !.parsed = v.parsed]
      ELSE [FreshRun(o, file[o]) EXCEPT
              !.report = IF v.result.errors = << >> THEN [v.result EXCEPT !.valid = TRUE] ELSE v.result,
              !.dest = IF v.result.errors = << >> THEN STAGING_CONTAINER ELSE REJECTED_CONTAINER,
              !.df = v.df,
              !.read = readOk, !.validator = v.validator, !.parsed = v.parsed,
              !.triaged = TRUE,
              !.pc = IF connected THEN "copy" ELSE "report"]

\* Mutant of AfterValidation: the report of a run starts from the warnings
\* the previous run of the same object left.
AfterValidationKeepingWarnings(o, readOk) ==
  LET r0 == [NewReport(o, file[o]) EXCEPT !.warnings = run[o].report.warnings]
      v == Validate(variant, file[o], r0)
  IN  IF ~readOk THEN [FreshRun(o, file[o]) EXCEPT !.pc = "except"]
      ELSE IF v.raised
      THEN [FreshRun(o, file[o]) EXCEPT !.pc = "except", !.report = v.result, !.read = TRUE,
                                        !.validator = v.validator, !.parsed = v.parsed]
      ELSE [FreshRun(o, file[o]) EXCEPT
              !.report = MarkValid(v.result),
              !.dest = Destination(v.result),
              !.df = v.df,
              !.read = TRUE, !.validator = v.validator, !.parsed = v.parsed,
              !.triaged = TRUE,
              !.pc = IF connected THEN "copy" ELSE "report"]

\* Where the run stands after blob.read() and the validator, given whether
\* the read raised.
AfterValidation(o, readOk) ==
  LET r0 == NewReport(o, file[o])
      v == Validate(variant, file[o], r0)
  IN  IF ~readOk THEN [FreshRun(o, file[o]) EXCEPT !.pc = "except"]
      ELSE IF v.raised
      THEN [FreshRun(o, file[o]) EXCEPT !.pc = "except", !.report = v.result, !.read = TRUE,
                                        !.validator = v.validator, !.parsed = v.parsed]
      ELSE [FreshRun(o, file[o]) EXCEPT
              !.report = MarkValid(v.result),
              !.dest = Destination(v.result),
              !.df = v.df,
              !.read = TRUE, !.validator = v.validator, !.parsed = v.parsed,
              !.triaged = TRUE,
              \* move_blob returns at once when CONNECTION_STRING is unset
              !.pc = IF connected THEN "copy" ELSE "report"]

\* The outcomes an SQL call can have: with the database off it fails, and the
\* function that made it catches the exception.
SqlOutcomes == IF variant = "db" /\ db = "on" THEN BOOLEAN ELSE {FALSE}

\* get_upload_file_id: an id is returned if the SELECT ran and found the row.
GetUploadFileId(o, ok) == ok /\ record[o]

\* The trigger delivers o: the id of its upload record is looked up (db
\* variant), the report is built, the bytes are read, the validator runs and
\* the destination is decided.
Trigger(o) ==
  /\ run[o].pc \in {"idle", "done"}
  /\ uploaded[o]
  /\ deliveries[o] < MaxDeliveries
  /\ \E readOk \in BOOLEAN, idOk \in SqlOutcomes :
       run' = [run EXCEPT ![o] = [AfterValidation(o, readOk) EXCEPT
                                    !.fileId = GetUploadFileId(o, idOk)]]
  /\ deliveries' = [deliveries EXCEPT ![o] = @ + 1]
  /\ UNCHANGED <<variant, connected, file, uploaded, staged, rejected, notifications>>
  /\ UNCHANGED <<names, writes, sql, aside>>

\* Mutant of AfterCopy: the delete is issued whether or not the upload succeeded.
AfterCopyAlwaysDelete(ok) == "delete"

\* The step of move_blob that follows upload_blob: delete_blob after a
\* successful upload; an exception is caught (and logged) by move_blob,
\* which then returns to the orchestrator.
AfterCopy(ok) == IF ok THEN "delete" ELSE "report"

\* move_blob: blob_client.upload_blob(content, overwrite=True, ...)
CopyBlob(o) ==
  /\ run[o].pc = "copy"
  /\ \E ok \in BOOLEAN :
       /\ run' = [run EXCEPT ![o].copy = IF ok THEN "ok" ELSE "failed",
                             ![o].pc = AfterCopy(ok)]
       /\ staged' = IF ok /\ run[o].dest = STAGING_CONTAINER
                    THEN [staged EXCEPT ![o] = TRUE] ELSE staged
       /\ rejected' = IF ok /\ run[o].dest = REJECTED_CONTAINER
                      THEN [rejected EXCEPT ![o] = TRUE] ELSE rejected
  /\ UNCHANGED <<variant, connected, file, uploaded, notifications, deliveries>>
  /\ UNCHANGED <<names, writes, sql, aside>>

\* Mutant of DeleteSource: a failed delete rolls the copy back and is
\* recorded in the report as an error.
DeleteSourceRollingBack(o) ==
  /\ run[o].pc = "delete"
  /\ \E ok \in BOOLEAN :
       /\ run' = [run EXCEPT ![o].del = IF ok THEN "ok" ELSE "failed",
                             ![o].pc = "report",
                             ![o].report = IF ok THEN @ ELSE AddError(@, <<"delete failed", 0>>)]
       /\ uploaded' = IF ok THEN [uploaded EXCEPT ![o] = FALSE] ELSE uploaded
       /\ staged' = IF ok THEN staged ELSE [staged EXCEPT ![o] = FALSE]
       /\ rejected' = IF ok THEN rejected ELSE [rejected EXCEPT ![o] = FALSE]
  /\ UNCHANGED <<variant, connected, file, notifications, deliveries>>
  /\ UNCHANGED <<names, writes, sql, aside>>

\* move_blob: original_blob.delete_blob(); its exception is caught in move_blob.
DeleteSource(o) ==
  /\ run[o].pc = "delete"
  /\ \E ok \in BOOLEAN :
       /\ run' = [run EXCEPT ![o].del = IF ok THEN "ok" ELSE "failed",
                             ![o].pc = "report"]
       /\ uploaded' = IF ok THEN [uploaded EXCEPT ![o] = FALSE] ELSE uploaded
  /\ UNCHANGED <<variant, connected, file, staged, rejected, notifications, deliveries>>
  /\ UNCHANGED <<names, writes, sql, aside>>

\* save_validation_report / save_notification called with report r; writeOk
\* is whether the store accepts the write.  Yields "stored", "dropped" (the
\* artifact was not written and the emitter returned) or "raised" (the
\* exception left the emitter).
Emit(r, writeOk) ==
  IF connected
  THEN IF Serializable(r) /\ writeOk THEN "stored" ELSE "dropped"
  ELSE IF variant = "base" /\ ~Serializable(r) THEN "raised" ELSE "dropped"

\* The SQL calls of the db variant stand between the run and its next call of
\* the emitter.  With the database off each of them fails inside its own
\* try/except and changes nothing, so the run goes straight on.
SqlDue(o, upTo) == variant = "db" /\ db = "on" /\ run[o].tele # upTo

\* Mutant of Store: a report that is already there is kept.
StoreKeepingFirst(n, r) ==
  IF notifications[n] = << >> THEN [notifications EXCEPT ![n] = <<r>>] ELSE notifications

\* blob_client.upload_blob(json.dumps(result)..., overwrite=True) under report_name n
Store(n, r) == [notifications EXCEPT ![n] = <<r>>]

\* The call of the emitter that ends the try block.
SaveReport(o) ==
  /\ run[o].pc = "report"
  /\ ~SqlDue(o, "done")
  /\ \E writeOk \in BOOLEAN :
       LET r == run[o].report
           e == Emit(r, writeOk)
           n == ReportName(variant, o)
       IN  /\ run' = [run EXCEPT ![o].emitted = @ + 1,
                                 ![o].persisted = (e = "stored"),
                                 ![o].reportName = IF e = "stored" THEN n ELSE @,
                                 ![o].pc = IF e = "raised" THEN "except" ELSE "done",
                                 ![o].outcome = IF e = "raised" THEN "none" ELSE "returned"]
           /\ notifications' = IF e = "stored" THEN Store(n, r) ELSE notifications
           /\ writes' = IF e = "stored" THEN [writes EXCEPT ![n] = @ + 1] ELSE writes
  /\ UNCHANGED <<variant, connected, file, uploaded, staged, rejected, deliveries>>
  /\ UNCHANGED <<names, sql, aside>>

\* The except branch: the synthetic error is appended and the emitter is
\* called; an exception of the emitter here leaves process_uploaded_file.
HandleException(o) ==
  /\ run[o].pc = "except"
  /\ ~SqlDue(o, "error")
  /\ \E writeOk \in BOOLEAN :
       LET r == AppendInternalError(run[o].report)
           e == Emit(r, writeOk)
           n == ReportName(variant, o)
       IN  /\ run' = [run EXCEPT ![o].report = r,
                                 ![o].excepted = TRUE,
                                 ![o].emitted = @ + 1,
                                 ![o].persisted = (e = "stored"),
                                 ![o].reportName = IF e = "stored" THEN n ELSE @,
                                 ![o].pc = "done",
                                 ![o].outcome = IF e = "raised" THEN "raised" ELSE "returned"]
           /\ notifications' = IF e = "stored" THEN Store(n, r) ELSE notifications
           /\ writes' = IF e = "stored" THEN [writes EXCEPT ![n] = @ + 1] ELSE writes
  /\ UNCHANGED <<variant, connected, file, uploaded, staged, rejected, deliveries>>
  /\ UNCHANGED <<names, sql, aside>>

(***************************************************************************)
(* The SQL telemetry of the db variant.  These steps are taken only with   *)
(* the database on.                                                        *)
(***************************************************************************)
\* The value load_dataframe_to_staging returns for table df when the SQL
\* calls succeed (ok) or one of them raises: the rows it committed.  The loop
\* computes row_number as idx + 1, which raises TypeError on an index label
\* that is not a number; the except branch of the function returns 0.
LoadResult(df, ok) == IF ok /\ df.index = "range" THEN df.rows ELSE 0

\* The UPDATE ... SET upload_status = 'loaded' was committed.
LoadCommitted(df, ok) == ok /\ df.index = "range"

\* The status the orchestrator passes to update_upload_status after the move
\* to container dest.
StatusFor(dest) == IF dest = STAGING_CONTAINER THEN "staged" ELSE "rejected"

\* "if df is not None and upload_file_id:" in the branch of a report without
\* errors; the other branch loads nothing.
AfterStatus(o) ==
  IF run[o].dest = STAGING_CONTAINER /\ run[o].df.present /\ run[o].fileId
  THEN "status" ELSE "done"

\* Mutant of UpdateStatus: an SQL error of the update is recorded in the
\* report and sends the object to rejected.
UpdateStatusSurfacing(o) ==
  /\ run[o].pc = "report"
  /\ SqlDue(o, "done") /\ run[o].tele = "none"
  /\ \E ok \in BOOLEAN :
       /\ status' = IF ok /\ record[o]
                    THEN [status EXCEPT ![o] = StatusFor(run[o].dest)] ELSE status
       /\ run' = IF ok THEN [run EXCEPT ![o].tele = AfterStatus(o)]
                 ELSE [run EXCEPT ![o].tele = "done",
                                  ![o].report = [AddError(@, <<"sql error", 0>>) EXCEPT !.valid = FALSE],
                                  ![o].dest = REJECTED_CONTAINER]
  /\ UNCHANGED <<variant, connected, file, uploaded, staged, rejected, notifications, deliveries>>
  /\ UNCHANGED <<names, writes, db, record, loaded, aside>>

\* update_upload_status(relative_path, 'staged' | 'rejected', ...) after
\* move_blob: the UPDATE touches the row of this blob path if there is one;
\* an SQL error is caught in the function.
UpdateStatus(o) ==
  /\ run[o].pc = "report"
  /\ SqlDue(o, "done") /\ run[o].tele = "none"
  /\ \E ok \in BOOLEAN :
       status' = IF ok /\ record[o]
                 THEN [status EXCEPT ![o] = StatusFor(run[o].dest)] ELSE status
  /\ run' = [run EXCEPT ![o].tele = AfterStatus(o)]
  /\ UNCHANGED <<variant, connected, file, uploaded, staged, rejected, notifications, deliveries>>
  /\ UNCHANGED <<names, writes, db, record, loaded, aside>>

\* load_dataframe_to_staging(df, upload_file_id, client_id), as one step of
\* the run: the rows are committed together with the 'loaded' status, or not
\* at all.
LoadRows(o) ==
  /\ run[o].pc = "report"
  /\ SqlDue(o, "done") /\ run[o].tele = "status"
  /\ \E ok \in BOOLEAN :
       /\ loaded' = [loaded EXCEPT ![o] = @ + LoadResult(run[o].df, ok)]
       /\ status' = IF LoadCommitted(run[o].df, ok)
                    THEN [status EXCEPT ![o] = "loaded"] ELSE status
  /\ run' = [run EXCEPT ![o].tele = "done"]
  /\ UNCHANGED <<variant, connected, file, uploaded, staged, rejected, notifications, deliveries>>
  /\ UNCHANGED <<names, writes, db, record, aside>>

\* update_upload_status(relative_path, 'error', ...) in the except branch,
\* between the append of the synthetic error and the call of the emitter.
UpdateErrorStatus(o) ==
  /\ run[o].pc = "except"
  /\ SqlDue(o, "error")
  /\ \E ok \in BOOLEAN :
       status' = IF ok /\ record[o] THEN [status EXCEPT ![o] = "error"] ELSE status
  /\ run' = [run EXCEPT ![o].tele = "error"]
  /\ UNCHANGED <<variant, connected, file, uploaded, staged, rejected, notifications, deliveries>>
  /\ UNCHANGED <<names, writes, db, record, loaded, aside>>

Next ==
  \E o \in Objects :
    \/ Trigger(o)
    \/ CopyBlob(o)
    \/ DeleteSource(o)
    \/ SaveReport(o)
    \/ HandleException(o)

Spec == Init /\ [][Next]_vars

(***************************************************************************)
(* The db variant with its database reachable: one object, any file, with  *)
(* or without a row in upload_files.                                       *)
(***************************************************************************)
\* The files tried: every csv file within the column limit, every parquet,
\* json and txt file, a workbook that is read and one whose first sheet is not.
DbFiles ==
  {f \in CsvFiles : f.cols <= CsvMaxColumns} \cup ParquetFiles \cup JsonFiles \cup TxtFiles \cup
  { [BaseFile EXCEPT !.suffix = "xlsx", !.sheets = <<GoodSheet>>],
    [BaseFile EXCEPT !.suffix = "xlsx", !.sheets = <<Sheet(FALSE, 0, 0, FALSE), GoodSheet>>] }

DbInit ==
  /\ variant = "db"
  /\ connected \in BOOLEAN
  /\ uploaded = [o \in Objects |-> o = "o1"]
  /\ file \in {[o \in Objects |-> IF o = "o1" THEN f ELSE BaseFile] : f \in DbFiles}
  /\ staged = [o \in Objects |-> FALSE]
  /\ rejected = [o \in Objects |-> FALSE]
  /\ notifications = [n \in ReportNames |-> << >>]
  /\ deliveries = [o \in Objects |-> 0]
  /\ run = [o \in Objects |-> FreshRun(o, file[o])]
  /\ path = DefaultPath
  /\ day = 1
  /\ writes = [n \in ReportNames |-> 0]
  /\ db = "on"
  /\ record \in {[o \in Objects |-> o = "o1" /\ b] : b \in BOOLEAN}
  /\ status = [o \in Objects |-> "none"]
  /\ loaded = [o \in Objects |-> 0]
  /\ ld = IdleLoad
  /\ ep = IdleEndpoint

DbNext ==
  \E o \in Objects :
    \/ Trigger(o)
    \/ CopyBlob(o)
    \/ DeleteSource(o)
    \/ UpdateStatus(o)
    \/ LoadRows(o)
    \/ SaveReport(o)
    \/ UpdateErrorStatus(o)
    \/ HandleException(o)

DbSpec == DbInit /\ [][DbNext]_vars

(***************************************************************************)
(* load_dataframe_to_staging, row by row.  A step ends at each SQL call.   *)
(***************************************************************************)
pipeline == <<variant, connected, file, uploaded, staged, rejected, notifications,
              deliveries, run, names, writes, sql>>

\* The numbers of rows of the tables loaded: none, one, and one less than,
\* exactly and one more than each whole number of batches.
TableSizes ==
  {0, 1} \cup UNION {{k * SQL_BATCH_SIZE - 1, k * SQL_BATCH_SIZE, k * SQL_BATCH_SIZE + 1} :
                       k \in 1..MaxBatches}

\* The except branch: the error is logged and 0 is returned.  The connection
\* is dropped with its transaction open, so nothing of it is committed.
LoadFailed(l, sqlError) ==
  [l EXCEPT !.pc = "returned", !.result = 0, !.dbError = @ \/ sqlError]

\* executemany(INSERT ..., batch); total_rows += len(batch)
Executed(l) ==
  [l EXCEPT !.tx = @ \o l.batch, !.sizes = Append(@, Len(l.batch)),
            !.total = @ + Len(l.batch), !.batch = << >>]

LoadInit ==
  /\ variant = "db"
  /\ connected = TRUE
  /\ uploaded = [o \in Objects |-> o = "o1"]
  /\ file = [o \in Objects |-> BaseFile]
  /\ staged = [o \in Objects |-> FALSE]
  /\ rejected = [o \in Objects |-> FALSE]
  /\ notifications = [n \in ReportNames |-> << >>]
  /\ deliveries = [o \in Objects |-> 0]
  /\ run = [o \in Objects |-> FreshRun(o, file[o])]
  /\ path = DefaultPath
  /\ day = 1
  /\ writes = [n \in ReportNames |-> 0]
  /\ db = "on"
  /\ record = [o \in Objects |-> o = "o1"]
  /\ status = [o \in Objects |-> "none"]
  /\ loaded = [o \in Objects |-> 0]
  /\ ld \in {[IdleLoad EXCEPT !.pc = "connect", !.rows = n, !.index = x] :
               n \in TableSizes, x \in {"range", "labels"}}
  /\ ep = IdleEndpoint

\* conn = get_sql_connection(); cursor = conn.cursor()
LoadConnect ==
  /\ ld.pc = "connect"
  /\ \E ok \in BOOLEAN :
       ld' = IF ok THEN [ld EXCEPT !.pc = "row"] ELSE LoadFailed(ld, TRUE)
  /\ UNCHANGED <<pipeline, ep>>

\* One pass of "for idx, row in df.iterrows()" up to the test of the batch
\* length: the tuple gets row_number idx + 1, which is the position of the
\* row under a range index and raises TypeError under a label that is not a
\* number.
LoadRow ==
  /\ ld.pc = "row"
  /\ ld.i < ld.rows
  /\ ld' = IF ld.index = "range"
           THEN [ld EXCEPT !.batch = Append(@, ld.i + 1),
                           !.i = @ + 1,
                           !.pc = IF Len(ld.batch) + 1 >= SQL_BATCH_SIZE THEN "flush" ELSE "row"]
           ELSE LoadFailed(ld, FALSE)
  /\ UNCHANGED <<pipeline, ep>>

\* The executemany of a full batch inside the loop.
LoadFlush ==
  /\ ld.pc = "flush"
  /\ \E ok \in BOOLEAN :
       ld' = IF ok THEN [Executed(ld) EXCEPT !.pc = "row"] ELSE LoadFailed(ld, TRUE)
  /\ UNCHANGED <<pipeline, ep>>

\* After the loop: "if batch:" and its executemany.
LoadRest ==
  /\ ld.pc = "row"
  /\ ld.i = ld.rows
  /\ IF ld.batch = << >>
     THEN ld' = [ld EXCEPT !.pc = "update"]
     ELSE \E ok \in BOOLEAN :
            ld' = IF ok THEN [Executed(ld) EXCEPT !.pc = "update"] ELSE LoadFailed(ld, TRUE)
  /\ UNCHANGED <<pipeline, ep>>

\* UPDATE upload_files SET upload_status = 'loaded', rows_loaded = total_rows
LoadUpdate ==
  /\ ld.pc = "update"
  /\ \E ok \in BOOLEAN :
       ld' = IF ok THEN [ld EXCEPT !.pc = "commit"] ELSE LoadFailed(ld, TRUE)
  /\ UNCHANGED <<pipeline, ep>>

\* conn.commit(): the rows inserted and rows_loaded become durable together.
LoadCommit ==
  /\ ld.pc = "commit"
  /\ \E ok \in BOOLEAN :
       ld' = IF ok THEN [ld EXCEPT !.pc = "close", !.table = ld.tx, !.recorded = ld.total]
             ELSE LoadFailed(ld, TRUE)
  /\ UNCHANGED <<pipeline, ep>>

\* conn.close(); return total_rows
LoadClose ==
  /\ ld.pc = "close"
  /\ \E ok \in BOOLEAN :
       ld' = IF ok THEN [ld EXCEPT !.pc = "returned", !.result = ld.total]
             ELSE LoadFailed(ld, TRUE)
  /\ UNCHANGED <<pipeline, ep>>

LoadNext ==
  \/ LoadConnect
  \/ LoadRow
  \/ LoadFlush
  \/ LoadRest
  \/ LoadUpdate
  \/ LoadCommit
  \/ LoadClose

LoadSpec == LoadInit /\ [][LoadNext]_vars

(***************************************************************************)
(* The upload endpoint: upload_file of src/app.py ("app") and of           *)
(* src/backend/app.py ("backend").  A step ends at each operation on the   *)
(* object store or on the history.                                         *)
(***************************************************************************)
\* The rows of upload_clients with is_active = 1 (backend): a client that is
\* not among the demo clients.
ActiveClients == {"CLI-00789"}

\* The values of the form field client_id: a demo client, the same within
\* blanks, a client of the database, and nobody.
FormClientIds == {"CLI-00123", " CLI-00123 ", "CLI-00789", "CLI-99999"}

\* str.strip() on those values.
Strip(s) == IF s = " CLI-00123 " THEN "CLI-00123" ELSE s

\* file.filename, by what the endpoint looks at: whether it is empty, and
\* what follows its last dot.
Named(suffix) == [empty |-> FALSE, suffix |-> suffix]
UploadNames ==
  {[empty |-> TRUE, suffix |-> NoDot], Named("csv"), Named("CSV"), Named("exe"), Named(NoDot)}

\* len(file_content): at the limit and one byte over it.
UploadSizes == {MAX_FILE_SIZE, MAX_FILE_SIZE + 1}

\* uuid.uuid4().hex[:8]
Uuids == {1, 2}

\* The requests: one without the part 'file', and every request with it.
Requests ==
  {NoRequest} \cup
  {[hasFile |-> TRUE, filename |-> n, clientId |-> c, size |-> z] :
     n \in UploadNames, c \in FormClientIds, z \in UploadSizes}

pipelineAndLoad == <<pipeline, ld>>

allowed_file(filename) ==
  filename.suffix # NoDot /\ Lower(filename.suffix) \in ALLOWED_EXTENSIONS

\* AUTHORIZED_CLIENTS.get(client_id) (app); get_client(client_id) (backend):
\* the row of the database if the query ran and found one, otherwise the demo
\* client of that id.
GetClient(app, id, dbOk) ==
  IF app = "app" THEN id \in AUTHORIZED_CLIENTS
  ELSE (dbOk /\ id \in ActiveClients) \/ id \in DEMO_CLIENTS

\* Mutant of Check: the size is not looked at.
CheckIgnoringSize(app, req, dbOk) ==
  IF ~req.hasFile THEN 400
  ELSE IF req.filename.empty THEN 400
  ELSE IF ~GetClient(app, Strip(req.clientId), dbOk) THEN 401
  ELSE IF ~allowed_file(req.filename) THEN 400
  ELSE 0

\* The checks upload_file makes before its try block, in their order: the
\* status code of the error response, or 0 when the request passes.
Check(app, req, dbOk) ==
  IF ~req.hasFile THEN 400
  ELSE IF req.filename.empty THEN 400
  ELSE IF ~GetClient(app, Strip(req.clientId), dbOk) THEN 401
  ELSE IF ~allowed_file(req.filename) THEN 400
  ELSE IF req.size > MAX_FILE_SIZE THEN 400
  ELSE 0

\* generate_blob_path(client['container_prefix'], file.filename)
BlobPath(id, u, filename) == <<id, u, filename.suffix>>

UploadInit ==
  /\ variant = "base"
  /\ connected = TRUE
  /\ uploaded = [o \in Objects |-> o = "o1"]
  /\ file = [o \in Objects |-> BaseFile]
  /\ staged = [o \in Objects |-> FALSE]
  /\ rejected = [o \in Objects |-> FALSE]
  /\ notifications = [n \in ReportNames |-> << >>]
  /\ deliveries = [o \in Objects |-> 0]
  /\ run = [o \in Objects |-> FreshRun(o, file[o])]
  /\ path = DefaultPath
  /\ day = 1
  /\ writes = [n \in ReportNames |-> 0]
  /\ db = "off"
  /\ record = [o \in Objects |-> FALSE]
  /\ status = [o \in Objects |-> "none"]
  /\ loaded = [o \in Objects |-> 0]
  /\ ld = IdleLoad
  /\ ep \in {[IdleEndpoint EXCEPT !.app = a, !.service = s] :
               a \in {"app", "backend"}, s \in BOOLEAN}

\* A request arrives and upload_file runs up to its try block: an error
\* response, or the blob path is generated.
Receive ==
  /\ ep.pc = "idle"
  /\ ep.served < MaxRequests
  /\ \E req \in Requests, u \in Uuids, dbOk \in BOOLEAN :
       LET a == Check(ep.app, req, dbOk)
       IN  ep' = IF a # 0
                 THEN [ep EXCEPT !.req = req, !.answer = a, !.served = @ + 1, !.blobPath = << >>]
                 ELSE [ep EXCEPT !.req = req, !.answer = 0, !.pc = "upload",
                                 !.blobPath = BlobPath(Strip(req.clientId), u, req.filename)]
  /\ UNCHANGED pipelineAndLoad

\* upload_to_blob: without a service the upload is simulated and nothing is
\* written; with one, upload_blob writes the blob or raises, and
\* get_blob_properties may raise after the write.  An exception is answered
\* with 500 by the except branch of upload_file.
UploadToBlob ==
  /\ ep.pc = "upload"
  /\ IF ~ep.service
     THEN ep' = [ep EXCEPT !.pc = "record"]
     ELSE \E written \in BOOLEAN, sized \in BOOLEAN :
            ep' = IF written /\ sized
                  THEN [ep EXCEPT !.pc = "record", !.store = @ \cup {ep.blobPath}]
                  ELSE [ep EXCEPT !.pc = "idle", !.answer = 500, !.served = @ + 1,
                                  !.store = IF written THEN @ \cup {ep.blobPath} ELSE @]
  /\ UNCHANGED pipelineAndLoad

\* The entry of the history and the success response: upload_history[...]
\* .insert(0, ...) (app); register_upload_in_db, whose INSERT fails without
\* raising (backend).
RecordUpload ==
  /\ ep.pc = "record"
  /\ \E ok \in (IF ep.app = "app" THEN {TRUE} ELSE BOOLEAN) :
       ep' = [ep EXCEPT !.pc = "idle", !.answer = 200, !.served = @ + 1,
                        !.history = IF ok THEN <<ep.blobPath>> \o @ ELSE @]
  /\ UNCHANGED pipelineAndLoad

UploadNext ==
  \/ Receive
  \/ UploadToBlob
  \/ RecordUpload

UploadSpec == UploadInit /\ [][UploadNext]_vars

(***************************************************************************)
(* Two objects under any pair of names, and the date changing under the    *)
(* runs.                                                                   *)
(***************************************************************************)
\* The names o2 may have beside o1: in another folder of the same client, of
\* another client under the same filename, and under another filename.
OtherPaths == {Path("acme", 2, "f1"), Path("beta", 1, "f1"), Path("acme", 1, "f2")}

NameInit ==
  /\ variant \in Variants
  /\ connected = TRUE
  /\ uploaded = [o \in Objects |-> TRUE]
  /\ file = [o \in Objects |-> BaseFile]
  /\ staged = [o \in Objects |-> FALSE]
  /\ rejected = [o \in Objects |-> FALSE]
  /\ notifications = [n \in ReportNames |-> << >>]
  /\ deliveries = [o \in Objects |-> 0]
  /\ run = [o \in Objects |-> FreshRun(o, file[o])]
  /\ path \in {[DefaultPath EXCEPT !["o2"] = q] : q \in OtherPaths}
  /\ day = 1
  /\ writes = [n \in ReportNames |-> 0]
  /\ db = "off"
  /\ record = [o \in Objects |-> FALSE]
  /\ status = [o \in Objects |-> "none"]
  /\ loaded = [o \in Objects |-> 0]
  /\ ld = IdleLoad
  /\ ep = IdleEndpoint

\* datetime.now(timezone.utc) passes midnight.
Midnight ==
  /\ day < MaxDays
  /\ day' = day + 1
  /\ UNCHANGED <<variant, connected, file, uploaded, staged, rejected, notifications,
                 deliveries, run, path, writes, sql, aside>>

NameNext ==
  \/ Midnight
  \/ \E o \in Objects :
       \/ Trigger(o)
       \/ CopyBlob(o)
       \/ DeleteSource(o)
       \/ SaveReport(o)
       \/ HandleException(o)

NameSpec == NameInit /\ [][NameNext]_vars

(***************************************************************************)
(* One object delivered again and again, and the date changing under its   *)
(* runs.                                                                   *)
(***************************************************************************)
DayInit ==
  /\ variant \in Variants
  /\ connected = TRUE
  /\ uploaded = [o \in Objects |-> o = "o1"]
  /\ file \in {[o \in Objects |-> IF o = "o1" THEN f ELSE BaseFile] : f \in PairFiles}
  /\ staged = [o \in Objects |-> FALSE]
  /\ rejected = [o \in Objects |-> FALSE]
  /\ notifications = [n \in ReportNames |-> << >>]
  /\ deliveries = [o \in Objects |-> 0]
  /\ run = [o \in Objects |-> FreshRun(o, file[o])]
  /\ path = DefaultPath
  /\ day = 1
  /\ writes = [n \in ReportNames |-> 0]
  /\ db = "off"
  /\ record = [o \in Objects |-> FALSE]
  /\ status = [o \in Objects |-> "none"]
  /\ loaded = [o \in Objects |-> 0]
  /\ ld = IdleLoad
  /\ ep = IdleEndpoint

DayNext ==
  \/ Midnight
  \/ \E o \in Objects :
       \/ Trigger(o)
       \/ CopyBlob(o)
       \/ DeleteSource(o)
       \/ SaveReport(o)
       \/ HandleException(o)

DaySpec == DayInit /\ [][DayNext]_vars

(***************************************************************************)
(* Properties.                                                             *)
(***************************************************************************)
Ended(o) == run[o].pc = "done"

InternalErrors(r) == {i \in 1..Len(r.errors) : r.errors[i][1] = "internal error"}

InDestination(o) ==
  \/ run[o].dest = STAGING_CONTAINER /\ staged[o]
  \/ run[o].dest = REJECTED_CONTAINER /\ rejected[o]

\* C1: when a run (against a configured store) has ended, the object is in
\* exactly one of staging and rejected, and the report emitter was called.
C1_ExactlyOneAreaAndReport ==
  \A o \in Objects :
    (Ended(o) /\ connected) => /\ staged[o] # rejected[o]
                               /\ run[o].emitted >= 1

\* C2: the destination chosen is staging exactly when the report has no
\* error at triage time and rejected exactly when it has one; a successful
\* copy puts the object in that container only, and the containers change
\* in no other way.
C2_TriageFollowsErrors ==
  [][\A o \in Objects :
       LET copied == run[o].pc = "copy" /\ run'[o].copy = "ok"
           clean == run[o].report.errors = << >>
       IN  /\ run'[o].pc = "copy" =>
                run'[o].dest = IF run'[o].report.errors = << >>
                               THEN STAGING_CONTAINER ELSE REJECTED_CONTAINER
           /\ (copied /\ clean) => (staged'[o] /\ rejected'[o] = rejected[o])
           /\ (copied /\ ~clean) => (rejected'[o] /\ staged'[o] = staged[o])
           /\ (staged'[o] # staged[o] \/ rejected'[o] # rejected[o]) => copied
    ]_vars

\* C2 witness: an object with an error was copied to rejected while an
\* error-free one was copied to staging.
C2_Witness ==
  \E o, p \in Objects :
    /\ run[o].copy = "ok" /\ run[o].dest = REJECTED_CONTAINER /\ rejected[o]
    /\ run[p].copy = "ok" /\ run[p].dest = STAGING_CONTAINER /\ staged[p]

\* C3: every report stored in the notifications container, and every report
\* the emitter was given in a run that returned, has valid = TRUE exactly
\* when its errors list is empty.
C3_ValidIffNoErrors ==
  /\ \A n \in ReportNames :
       notifications[n] # << >> =>
         (notifications[n][1].valid <=> notifications[n][1].errors = << >>)
  /\ \A o \in Objects :
       (Ended(o) /\ run[o].outcome = "returned") =>
         (run[o].report.valid <=> run[o].report.errors = << >>)

\* C3 witness: a report of the exception path and an accepted report are both stored.
C3_Witness ==
  /\ \E o \in Objects : Ended(o) /\ run[o].excepted /\ run[o].persisted
                        /\ notifications[ReportName(variant, o)] = <<run[o].report>>
  /\ \E o \in Objects : Ended(o) /\ run[o].persisted /\ run[o].report.valid

\* C4: a run that went through the except branch, with the store configured
\* and accepting writes, has the synthetic error in its report and has left
\* the object in the rejected container.
C4_ExceptionRelocatesToRejected ==
  \A o \in Objects :
    (Ended(o) /\ run[o].excepted /\ connected /\ run[o].persisted) =>
      /\ InternalErrors(run[o].report) # {}
      /\ rejected[o]

\* C5: a run that has ended called the report emitter exactly once, and on
\* the exception path the report holds exactly one synthetic error.
C5_EmitterCalledOnce ==
  \A o \in Objects :
    Ended(o) => /\ run[o].emitted = 1
                /\ run[o].excepted => Cardinality(InternalErrors(run[o].report)) = 1

\* C6: a run (against a configured store) that has ended either stored its
\* report artifact or let a failure reach its caller.
C6_PersistedOrRaised ==
  \A o \in Objects :
    (Ended(o) /\ connected) => (run[o].persisted \/ run[o].outcome = "raised")

\* C7: a run in which the copy or the delete of move_blob failed ends with
\* the failure reaching the caller.
C7_StoreErrorSurfaces ==
  \A o \in Objects :
    (Ended(o) /\ (run[o].copy = "failed" \/ run[o].del = "failed")) =>
      run[o].outcome = "raised"

\* C8: the delete is issued only after the copy succeeded (the copy is then
\* at the destination); after a failed copy no delete is issued and the
\* source is still in the uploaded area.
C8_DeleteOnlyAfterCopy ==
  \A o \in Objects :
    /\ (run[o].pc = "delete" \/ run[o].del # "none") => (run[o].copy = "ok" /\ InDestination(o))
    /\ run[o].copy = "failed" => (run[o].del = "none" /\ run[o].pc # "delete" /\ uploaded[o])

\* C8 witness: a run ended after its copy failed.
C8_Witness ==
  \E o \in Objects : Ended(o) /\ run[o].copy = "failed" /\ uploaded[o]

\* C9: after a copy to staging whose delete failed, the copy stays in
\* staging, the report stays valid with no error, and the run ends having
\* called the emitter with that report.
C9_DeleteFailureKeepsCopy ==
  \A o \in Objects :
    (run[o].del = "failed" /\ run[o].dest = STAGING_CONTAINER) =>
      /\ staged[o]
      /\ run[o].report.valid /\ run[o].report.errors = << >>
      /\ ~run[o].excepted
      /\ Ended(o) => (run[o].emitted = 1 /\ run[o].outcome = "returned")
      /\ (Ended(o) /\ run[o].persisted) =>
            notifications[ReportName(variant, o)] = <<run[o].report>>

\* C9 witness: such a run has ended and its report is stored.
C9_Witness ==
  \E o \in Objects :
    /\ Ended(o) /\ run[o].del = "failed" /\ run[o].dest = STAGING_CONTAINER
    /\ run[o].persisted /\ uploaded[o] /\ staged[o]

\* C10: over any sequence of runs and redeliveries, an object in staging
\* stays there and never gets into rejected, an object in rejected stays
\* there and never gets into staging, and an object that left the uploaded
\* area does not come back.
C10_TransitionsAreTerminal ==
  [][\A o \in Objects :
       /\ staged[o] => (staged'[o] /\ ~rejected'[o])
       /\ rejected[o] => (rejected'[o] /\ ~staged'[o])
       /\ ~uploaded[o] => ~uploaded'[o]
    ]_vars

\* C10 witness: an object was delivered twice and the second run completed
\* its move.
C10_Witness ==
  \E o \in Objects :
    /\ deliveries[o] = 2 /\ Ended(o)
    /\ run[o].copy = "ok" /\ run[o].del = "ok" /\ ~uploaded[o]
    /\ staged[o] # rejected[o]

(***************************************************************************)
(* The validators, seen from the run that called them.                     *)
(***************************************************************************)
\* The run of o read the bytes, its validator returned, and the report is
\* still as it stood at the triage decision.
Triaged(o) == run[o].triaged /\ ~run[o].excepted

CountErrors(r, msg) == Cardinality({i \in DOMAIN r.errors : r.errors[i][1] = msg})
CountWarnings(r, w) == Cardinality({i \in DOMAIN r.warnings : r.warnings[i] = w})

IsCsv(o) == file[o].suffix \in {"csv", "CSV"}
IsExcel(o) == file[o].suffix \in {"xlsx", "XLSX", "xls"}

\* The bytes of a csv file parse in full as UTF-8.
ParsesAsUtf8(f) == ~f.empty /\ f.badUtf8 = "none" /\ f.malformed = "none"

Readable(f) == {i \in DOMAIN f.sheets : f.sheets[i].readable}

RECURSIVE RowsOfReadable(_, _)
RowsOfReadable(f, i) ==
  IF i > Len(f.sheets) THEN 0
  ELSE (IF f.sheets[i].readable THEN f.sheets[i].rows ELSE 0) + RowsOfReadable(f, i + 1)

\* The workbook of o opens and is within the sheet ceiling.
OpensWithinSheetCeiling(o) ==
  IsExcel(o) /\ file[o].workbookOk /\ Len(file[o].sheets) <= XlsxMaxSheets

C12_TooManySheetsStopsAtOnce ==
  \A o \in Objects :
    (run[o].read /\ IsExcel(o) /\ file[o].workbookOk /\ Len(file[o].sheets) > XlsxMaxSheets) =>
      /\ run[o].triaged
      /\ ~run[o].parsed
      /\ Len(run[o].report.errors) = 1
      /\ run[o].report.errors[1][1] = "excel: too many sheets"
      /\ run[o].report.metadata = EmptyMeta
      /\ ~run[o].report.valid
      /\ run[o].dest = REJECTED_CONTAINER
      /\ ~staged[o]
      /\ run[o].copy = "ok" => rejected[o]

\* C12 witness: such a workbook has been copied to the rejected container.
C12_Witness ==
  \E o \in Objects :
    /\ run[o].read /\ IsExcel(o) /\ file[o].workbookOk
    /\ Len(file[o].sheets) > XlsxMaxSheets
    /\ run[o].copy = "ok" /\ rejected[o]

\* C13, as claimed: a sheet that cannot be read adds one warning and no
\* error; it is left out of total_rows and sheets_detail, every other sheet
\* is read and checked, and a workbook with no other problem is valid and
\* destined to staging.
C13_UnreadableSheetIsAWarning ==
  \A o \in Objects :
    LET f == file[o]
        r == run[o].report
        m == r.metadata
    IN  (run[o].read /\ OpensWithinSheetCeiling(o) /\ Readable(f) # DOMAIN f.sheets) =>
          /\ run[o].triaged
          /\ \A i \in DOMAIN f.sheets \ Readable(f) : CountWarnings(r, <<"sheet: read error", i>>) = 1
          /\ \A k \in DOMAIN r.errors : r.errors[k][1] \in {"sheet: too many columns", "excel: too many rows"}
          /\ "total_rows" \in DOMAIN m /\ m.total_rows = RowsOfReadable(f, 1)
          /\ "sheets_detail" \in DOMAIN m /\ {d.sheet : d \in m.sheets_detail} = Readable(f)
          /\ ((\A i \in Readable(f) : f.sheets[i].cols <= XlsxMaxColumns)
                /\ RowsOfReadable(f, 1) <= XlsxMaxRows)
             => (r.valid /\ run[o].dest = STAGING_CONTAINER)

\* C14, as claimed: a JSON, parquet or text payload longer than the size
\* ceiling of its format gets exactly one error, nothing is decoded, the
\* metadata stays empty and the object is destined to rejected.
SizeCeilingMb(ext) ==
  CASE ext = "json" -> JsonMaxSizeMb
    [] ext = "parquet" -> ParquetMaxSizeMb
    [] OTHER -> TxtMaxSizeMb

C14_OversizeRejectedBeforeDecode ==
  \A o \in Objects :
    (/\ run[o].read
     /\ file[o].suffix \in {"json", "parquet", "txt"}
     /\ file[o].size > SizeCeilingMb(file[o].suffix) * BytesPerMb) =>
      /\ run[o].triaged
      /\ ~run[o].parsed
      /\ Len(run[o].report.errors) = 1
      /\ run[o].report.metadata = EmptyMeta
      /\ ~run[o].report.valid
      /\ run[o].dest = REJECTED_CONTAINER

\* C15, as claimed: malformed JSON is recorded as an error of the report and
\* never leaves the validator as an exception, whether the bytes decode as
\* UTF-8 or only through the fallback; the object is triaged to rejected.
C15_MalformedJsonIsAnError ==
  \A o \in Objects :
    (/\ run[o].read
     /\ file[o].suffix = "json"
     /\ file[o].size <= JsonMaxSizeMb * BytesPerMb
     /\ file[o].malformed # "none") =>
      /\ run[o].triaged
      /\ ~run[o].excepted
      /\ run[o].report.errors # << >>
      /\ ~run[o].report.valid
      /\ run[o].dest = REJECTED_CONTAINER

\* C16, as claimed: a csv file within the limits that is not UTF-8 but parses
\* in full as latin-1 is accepted, and metadata.encoding is latin-1, wherever
\* its first byte that is not UTF-8 lies.
C16_LaterEncodingAccepted ==
  \A o \in Objects :
    LET f == file[o]
        r == run[o].report
    IN  (/\ run[o].read /\ IsCsv(o)
         /\ ~f.empty /\ f.malformed = "none" /\ f.badUtf8 # "none"
         /\ f.rows <= CsvMaxRows /\ f.cols <= CsvMaxColumns) =>
          /\ run[o].triaged
          /\ r.valid
          /\ run[o].dest = STAGING_CONTAINER
          /\ "encoding" \in DOMAIN r.metadata
          /\ r.metadata.encoding = "latin-1"

\* C17: for a name whose extension is none of csv, xlsx, xls, json, parquet,
\* txt (a name without a dot included) no validator is called and nothing is
\* decoded; the report has exactly one error and empty metadata, and the
\* object is sent to the rejected container.
C17_UnsupportedExtensionRejected ==
  \A o \in Objects :
    (run[o].read /\ (file[o].suffix = NoDot \/ Lower(file[o].suffix) \notin SupportedExtensions)) =>
      /\ run[o].triaged
      /\ run[o].validator = "none"
      /\ ~run[o].parsed
      /\ Len(run[o].report.errors) = 1
      /\ run[o].report.errors[1][1] = "unsupported extension"
      /\ run[o].report.metadata = EmptyMeta
      /\ ~run[o].report.valid
      /\ run[o].dest = REJECTED_CONTAINER
      /\ ~staged[o]
      /\ run[o].copy = "ok" => rejected[o]

\* C17 witness: an object whose name has no dot has been copied to rejected.
C17_Witness ==
  \E o \in Objects :
    /\ run[o].read /\ file[o].suffix = NoDot
    /\ run[o].copy = "ok" /\ rejected[o]

\* C18: warnings do not bear on the outcome.  Two reports with the same
\* errors have the same valid flag and the same destination, whatever their
\* warnings are.
C18_WarningsDoNotDecide ==
  \A o, p \in Objects :
    (Triaged(o) /\ Triaged(p) /\ run[o].report.errors = run[p].report.errors) =>
      /\ run[o].report.valid = run[p].report.valid
      /\ run[o].dest = run[p].dest

\* C18 witness: two triaged reports with the same errors, one with a warning
\* and one without.
C18_Witness ==
  \E o, p \in Objects :
    /\ Triaged(o) /\ Triaged(p)
    /\ run[o].report.errors = run[p].report.errors
    /\ run[o].report.warnings = << >>
    /\ run[p].report.warnings # << >>

\* C19, as claimed: a csv file whose header repeats a name gets a warning
\* that names the repeated column, no error for it, and its row and column
\* counts in the metadata.
RepeatedNames(f) ==
  {f.header[i] : i \in {i \in DOMAIN f.header : \E j \in 1..(i - 1) : f.header[j] = f.header[i]}}

C19_RepeatedHeaderWarns ==
  \A o \in Objects :
    LET f == file[o]
        r == run[o].report
    IN  (/\ run[o].read /\ IsCsv(o) /\ ParsesAsUtf8(f)
         /\ f.rows <= CsvMaxRows /\ f.cols <= CsvMaxColumns
         /\ RepeatedNames(f) # {}) =>
          /\ run[o].triaged
          /\ r.errors = << >>
          /\ "rows" \in DOMAIN r.metadata /\ r.metadata.rows = f.rows
          /\ "columns" \in DOMAIN r.metadata /\ r.metadata.columns = f.cols
          /\ \A name \in RepeatedNames(f) :
               \E k \in DOMAIN r.warnings :
                 /\ r.warnings[k][1] = "duplicated columns"
                 /\ \E j \in DOMAIN r.warnings[k][2] : r.warnings[k][2][j][1] = name

Wrote(o) == run'[o].emitted = run[o].emitted + 1 /\ run'[o].persisted

\* C21: the artifact is written under a name made of the client of the
\* object (base variant only), the UTC date of the moment of the write and
\* the filename, and of nothing else; a write replaces what was under that
\* name, so a name that was written holds exactly one artifact, the report
\* of the run that wrote last; no other step touches the artifacts.
C21_LastWriteWins ==
  [][ /\ \A o \in Objects :
           Wrote(o) =>
             LET n == run'[o].reportName
             IN  /\ n = <<IF variant = "base" THEN path[o].client ELSE NoClient,
                           day, path[o].filename>>
                 /\ notifications'[n] = <<run'[o].report>>
                 /\ \A m \in ReportNames \ {n} : notifications'[m] = notifications[m]
      /\ (\A o \in Objects : ~Wrote(o)) => notifications' = notifications
      /\ \A n \in ReportNames : writes'[n] > 0 => Len(notifications'[n]) = 1 ]_vars

\* A second write under one name on one day has replaced a different
\* report: the first run accepted the object and copied it to staging, so
\* its report had no errors; the second failed and stored a report with the
\* internal error under the same name.
C21_Witness ==
  \E o \in Objects :
    /\ Ended(o) /\ deliveries[o] = 2
    /\ staged[o] /\ run[o].excepted /\ run[o].persisted
    /\ InternalErrors(run[o].report) # {}
    /\ writes[run[o].reportName] = 2
    /\ notifications[run[o].reportName] = <<run[o].report>>

\* C22: whatever the interleaving, the runs of different objects write to
\* different report names: the artifact a run persisted stays the artifact
\* under its name when the runs of the other objects have written theirs.
C22_RunsAreIndependent ==
  \A o \in Objects :
    (Ended(o) /\ run[o].persisted) =>
      notifications[run[o].reportName] = <<run[o].report>>
(***************************************************************************)
(* The SQL telemetry of the db variant.                                    *)
(***************************************************************************)
\* The step is one of the SQL calls the orchestrator makes after the triage
\* or in its except branch.
Telemetry(o) == run'[o].tele # run[o].tele /\ run'[o].pc = run[o].pc

\* What a run is apart from its telemetry.
Apart(r) == [r EXCEPT !.fileId = FALSE, !.tele = "none"]

\* C23: whether they succeed or fail, the SQL calls leave the report, the
\* destination, the outcome of the move and the calls of the emitter as they
\* were: the lookup of the record id changes nothing of the run but the id,
\* a status update or a load changes nothing of it but its place in the
\* telemetry, and the run ends with its emitter called once.
C23_TelemetryIsBestEffort ==
  [][ \A o \in Objects :
        /\ Telemetry(o) => Apart(run'[o]) = Apart(run[o])
        /\ deliveries'[o] # deliveries[o] =>
             \E readOk \in BOOLEAN : Apart(run'[o]) = Apart(AfterValidation(o, readOk))
        /\ run'[o].pc = "done" => run'[o].emitted = 1 ]_vars

\* A run whose every SQL update failed (the row is there and still has no
\* status) ended with an accepted object in staging and its report stored.
C23_Witness ==
  \E o \in Objects :
    /\ Ended(o) /\ deliveries[o] = 1
    /\ record[o] /\ status[o] = "none" /\ loaded[o] = 0
    /\ run[o].report.valid /\ run[o].dest = STAGING_CONTAINER /\ staged[o]
    /\ run[o].df.present
    /\ run[o].emitted = 1 /\ run[o].persisted

\* C25: rows are committed to staging_data, and the status becomes 'loaded',
\* only in a run whose report has no errors, whose object is in staging,
\* after the 'staged' status update was made, with a parsed table and a
\* record id; an object that was rejected or hit an internal error in its
\* first run has no rows and not the status 'loaded'.
C25_LoadOnlyAfterStaging ==
  [][ \A o \in Objects :
        /\ (loaded'[o] > loaded[o] \/ (status'[o] = "loaded" /\ status[o] # "loaded")) =>
             /\ run[o].report.errors = << >>
             /\ staged[o]
             /\ run[o].tele = "status"
             /\ run[o].df.present
             /\ run[o].fileId
        /\ (deliveries'[o] = 1 /\ (run'[o].dest = REJECTED_CONTAINER \/ run'[o].pc = "except")) =>
             (loaded'[o] = 0 /\ status'[o] # "loaded") ]_vars
(***************************************************************************)
(* The load of the rows.                                                   *)
(***************************************************************************)
\* The row numbers 1 .. n in order.
RowNumbers(n) == [k \in 1..n |-> k]

\* C26: a call that returned without an SQL call having raised has committed
\* every row of the table once, in executemany calls of at most
\* SQL_BATCH_SIZE rows of which only the last may be partial, and the count
\* it returned and recorded as rows_loaded is the number of rows; a call in
\* which an SQL call raised returned 0.
C26_EveryRowLoadedOnce ==
  ld.pc = "returned" =>
    IF ld.dbError
    THEN ld.result = 0
    ELSE /\ ld.table = RowNumbers(ld.rows)
         /\ \A k \in DOMAIN ld.sizes :
              /\ ld.sizes[k] <= SQL_BATCH_SIZE
              /\ k < Len(ld.sizes) => ld.sizes[k] = SQL_BATCH_SIZE
         /\ ld.result = ld.rows
         /\ ld.recorded = ld.rows
(***************************************************************************)
(* The upload endpoint.                                                    *)
(***************************************************************************)
\* The request has a file with a name, comes from a known client, has an
\* allowed extension and is within the size limit.
Acceptable(app, req) ==
  /\ req.hasFile /\ ~req.filename.empty
  /\ Strip(req.clientId) \in
       (IF app = "app" THEN AUTHORIZED_CLIENTS ELSE ActiveClients \cup DEMO_CLIENTS)
  /\ req.filename.suffix # NoDot
  /\ Lower(req.filename.suffix) \in ALLOWED_EXTENSIONS
  /\ req.size <= MAX_FILE_SIZE

\* The step answers a request that fails one of the checks.
Refused == ep'.served = ep.served + 1 /\ ~Acceptable(ep'.app, ep'.req)

\* Only an acceptable request is written to the store, and a refused one is
\* answered with an error and changes neither the store nor the history.
OnlyAcceptableStored ==
  /\ ep'.store # ep.store => Acceptable(ep.app, ep.req)
  /\ Refused => /\ ep'.answer \in {400, 401}
                /\ ep'.store = ep.store
                /\ ep'.history = ep.history

\* C24 as stated: only an acceptable request is written to the store, a
\* refused one is answered with an error and changes nothing, and an entry
\* of the history is recorded only when the blob it names is in the store.
C24_HistoryOnlyAfterStored ==
  [][ /\ OnlyAcceptableStored
      /\ ep'.history # ep.history => ep.blobPath \in ep.store ]_vars

\* C24, amended: only an acceptable request is written to the store, a
\* refused one is answered with an error and changes nothing, and an entry
\* of the history is recorded only for an acceptable request after
\* upload_to_blob returned for it; with a blob service that means the blob
\* is in the store, without one (demo mode) nothing is ever written and the
\* entry is recorded all the same.
C24_HistoryOnlyAfterUploadReturned ==
  [][ /\ OnlyAcceptableStored
      /\ ep'.history # ep.history =>
           /\ ep.pc = "record"
           /\ Acceptable(ep.app, ep.req)
           /\ ep'.history = <<ep.blobPath>> \o ep.history
           /\ ep.service => ep.blobPath \in ep.store
      /\ ~ep.service => ep'.store = {} ]_vars

\* With a blob service: a request was refused, and before or after it an
\* acceptable one was stored and then entered in the history.
C24_Witness ==
  /\ ep.service
  /\ ep.pc = "idle" /\ ep.served = MaxRequests
  /\ ~Acceptable(ep.app, ep.req) /\ ep.answer \in {400, 401}
  /\ Len(ep.history) = 1
  /\ ep.history[1] \in ep.store
====
